---- MODULE Spec2Model ----
(***************************************************************************)
(* Model of voicevox_engine/user_dict/user_dict_manager.py: the persisted  *)
(* user dictionary (user_dict.json), the two module-level locks, the       *)
(* OpenJTalk recompilation pipeline (update_dict) and the editing methods  *)
(* of UserDictionary, each run by concurrent callers one statement group   *)
(* at a time.                                                              *)
(***************************************************************************)
EXTENDS Integers, Sequences, FiniteSets, TLC

\* ------------------------------------------------------------------ bounds
NumCallers == 2      \* concurrent callers (threads), each issuing one call
MaxIds == 2          \* word ids the callers and the initial store draw from

Callers == 1..NumCallers
NoCaller == 0

\* ------------------------------------------------------------- identifiers
\* A word id is a string; the model keeps what UUID() and str() see of it:
\* the 128-bit value (n) and whether the text is the canonical form, another
\* accepted spelling of the same value, or no UUID at all.
Id(n) == [n |-> n, form |-> "canonical"]
VariantId(n) == [n |-> n, form |-> "variant"]
MalformedId(n) == [n |-> n, form |-> "malformed"]
KnownIds == {Id(n) : n \in 1..MaxIds}
NoId == [n |-> 0, form |-> "none"]

\* uuid4(): a value no other call draws and no stored id has.
Uuid4(t) == Id(MaxIds + t)

\* UUID(s) raises ValueError unless s spells a UUID.
IsUuid(k) == k.form \in {"canonical", "variant"}

\* str(UUID(s)): the canonical spelling of the same value.
CanonicalId(k) == [n |-> k.n, form |-> "canonical"]

\* ------------------------------------------------- part-of-speech, words
MIN_PRIORITY == 0
MAX_PRIORITY == 10

\* user_dict_word.part_of_speech_data: two of its rows.
part_of_speech_data ==
  { [context_id |-> 1348, pos |-> <<"meishi", "koyuu", "ippan", "*">>,
     rules |-> {"*", "C1", "C2", "C3", "C4", "C5"},
     cost_candidates |-> <<-988, 3488, 4768, 6048, 7328, 8609,
                           8734, 8859, 8984, 9110, 14176>>],
    [context_id |-> 1345, pos |-> <<"meishi", "ippan", "*", "*">>,
     rules |-> {"*", "C1", "C2", "C3", "C4", "C5"},
     cost_candidates |-> <<-4445, 49, 1473, 2897, 4321, 5746,
                           6554, 7362, 8170, 8979, 15001>>] }

HasRow(context_id) == \E r \in part_of_speech_data : r.context_id = context_id
Row(context_id) == CHOOSE r \in part_of_speech_data : r.context_id = context_id

\* priority2cost: cost_candidates[MAX_PRIORITY - priority] (0-based in Python).
priority2cost(context_id, priority) ==
  Row(context_id).cost_candidates[MAX_PRIORITY - priority + 1]

Abs(x) == IF x < 0 THEN -x ELSE x

\* np.argmin(np.abs(candidates - cost)): the first index (1-based here) whose
\* candidate is nearest to the cost.
RECURSIVE ArgMinDistance(_, _, _, _)
ArgMinDistance(c, cost, i, best) ==
  IF i > Len(c) THEN best
  ELSE ArgMinDistance(c, cost, i + 1,
                      IF Abs(c[i] - cost) < Abs(c[best] - cost) THEN i ELSE best)

\* _cost2priority: MAX_PRIORITY - argmin |candidate - cost|.
NearestPriority(context_id, cost) ==
  MAX_PRIORITY
    - (ArgMinDistance(Row(context_id).cost_candidates, cost, 1, 1) - 1)

\* _cost2priority on the costs priority2cost produces, tabulated once.
ContextIds == { r.context_id : r \in part_of_speech_data }
CandidateCosts(context_id) ==
  { Row(context_id).cost_candidates[i] :
      i \in DOMAIN Row(context_id).cost_candidates }
PriorityOfCandidate ==
  [x \in ContextIds |->
     [cost \in CandidateCosts(x) |-> NearestPriority(x, cost)]]

cost2priority(context_id, cost) ==
  IF cost \in CandidateCosts(context_id)
    THEN PriorityOfCandidate[context_id][cost]
    ELSE NearestPriority(context_id, cost)

\* create_word(WordProperty): the words callers submit.
Word(surface, context_id, priority) ==
  [surface |-> surface, context_id |-> context_id,
   pos |-> Row(context_id).pos, rule |-> "*", priority |-> priority]
Words == { Word("voivo", 1348, 5), Word("zunda", 1345, 8) }

\* convert_to_save_format: the stored word carries cost, not priority.
convert_to_save_format(w) ==
  [surface |-> w.surface, context_id |-> w.context_id, pos |-> w.pos,
   rule |-> w.rule, cost |-> priority2cost(w.context_id, w.priority)]

\* convert_from_save_format: priority recovered from the stored cost.
convert_from_save_format(s) ==
  [surface |-> s.surface, context_id |-> s.context_id, pos |-> s.pos,
   rule |-> s.rule, priority |-> cost2priority(s.context_id, s.cost)]

\* ----------------------------------------------------- dict[str, word]
\* A Python dict: entries in insertion order, keys unique.
Entry(k, w) == [id |-> k, word |-> w]
Keys(d) == { d[i].id : i \in DOMAIN d }
Has(d, k) == k \in Keys(d)
Get(d, k) == d[CHOOSE i \in DOMAIN d : d[i].id = k].word

\* d[k] = w
Put(d, k, w) ==
  IF Has(d, k)
    THEN [i \in DOMAIN d |-> IF d[i].id = k THEN Entry(k, w) ELSE d[i]]
    ELSE Append(d, Entry(k, w))

\* A del that drops the entries after the key as well.
DelFromKey(d, k) ==
  IF \E i \in DOMAIN d : d[i].id = k
    THEN SubSeq(d, 1, (CHOOSE i \in DOMAIN d : d[i].id = k) - 1)
    ELSE d

\* del d[k]
Del(d, k) == SelectSeq(d, LAMBDA e : e.id # k)

\* A merge in which a key of a keeps the word it has in a.
RECURSIVE MergeKeepingFirst(_, _)
MergeKeepingFirst(a, b) ==
  IF b = <<>> THEN a
  ELSE IF Has(a, Head(b).id) THEN MergeKeepingFirst(a, Tail(b))
  ELSE MergeKeepingFirst(Append(a, Head(b)), Tail(b))

\* {**a, **b}
RECURSIVE Merge(_, _)
Merge(a, b) ==
  IF b = <<>> THEN a ELSE Merge(Put(a, Head(b).id, Head(b).word), Tail(b))

\* ------------------------------------------------- the persisted document
\* user_dict.json: missing, a complete JSON document (the save-format dict),
\* or a file opened for writing whose new content is not all there yet.
AbsentFile == [kind |-> "absent", doc |-> <<>>]
PartialFile == [kind |-> "partial", doc |-> <<>>]
DocFile(d) == [kind |-> "doc", doc |-> d]

\* A document whose cost field holds the word's priority as it is.
RECURSIVE SaveFormatStoringPriority(_)
SaveFormatStoringPriority(d) ==
  IF d = <<>> THEN <<>>
  ELSE <<Entry(Head(d).id,
               [surface |-> Head(d).word.surface,
                context_id |-> Head(d).word.context_id,
                pos |-> Head(d).word.pos, rule |-> Head(d).word.rule,
                cost |-> Head(d).word.priority])>>
         \o SaveFormatStoringPriority(Tail(d))

\* _write_to_json, lines 146-150: the document built from the dict.
RECURSIVE SaveFormat(_)
SaveFormat(d) ==
  IF d = <<>> THEN <<>>
  ELSE <<Entry(Head(d).id, convert_to_save_format(Head(d).word))>>
         \o SaveFormat(Tail(d))

\* read_dict, lines 239-241: result[str(UUID(id))] = convert_from_save_format.
RECURSIVE LoadFormat(_, _)
LoadFormat(result, doc) ==
  IF doc = <<>> THEN result
  ELSE LoadFormat(Put(result, CanonicalId(Head(doc).id),
                      convert_from_save_format(Head(doc).word)), Tail(doc))

\* read_dict as a function of the file: the dict, or the exception raised
\* (json.load on an incomplete document, UUID() on a key that is no UUID).
ReadDict(f) ==
  IF f.kind = "absent" THEN [exc |-> "none", dict |-> <<>>]
  ELSE IF f.kind = "partial" THEN [exc |-> "JSONDecodeError", dict |-> <<>>]
  ELSE IF \E k \in Keys(f.doc) : ~IsUuid(k)
         THEN [exc |-> "ValueError: badly formed UUID string", dict |-> <<>>]
  ELSE [exc |-> "none", dict |-> LoadFormat(<<>>, f.doc)]

\* --------------------------------------------------------------- export
\* default.csv: the base dictionary's lines.
BaseLines == << [base |-> "tokyo"] >>

\* default_dict_path.read_text(): the lines of the text and what follows the
\* last of them: a newline, nothing, or white space that is no newline.
Text(lines, tail) == [lines |-> lines, tail |-> tail]
NoText == Text(<<>>, "")
ShippedText == Text(BaseLines, "newline")
DefaultTexts ==
  { Text(BaseLines, tail) : tail \in {"newline", "", "blank"} }

\* Lines 176-177: if default_dict == default_dict.rstrip(): default_dict += "\n"
\* (rstrip removes every trailing white space character).
WithNewline(text) ==
  IF text.tail = "" THEN Text(text.lines, "newline") ELSE text

\* A text as the compiler reads it: a sequence of lines, a line being the
\* sequence of the pieces written between two newlines.
Line(piece) == <<piece>>
Lines(pieces) == [i \in DOMAIN pieces |-> Line(pieces[i])]
\* text + more, where more is a sequence of newline-terminated lines.
Concat(text, more) ==
  IF text.tail = "newline" \/ text.lines = <<>> \/ more = <<>>
    THEN Lines(text.lines) \o more
    ELSE Lines(SubSeq(text.lines, 1, Len(text.lines) - 1))
           \o << Line(text.lines[Len(text.lines)]) \o more[1] >>
           \o Tail(more)

\* update_dict, lines 184-206: one csv line per user word.
CsvLine(w) ==
  [surface |-> w.surface, context_id |-> w.context_id,
   cost |-> priority2cost(w.context_id, w.priority), pos |-> w.pos,
   rule |-> w.rule]

RECURSIVE UserLines(_)
UserLines(d) ==
  IF d = <<>> THEN <<>> ELSE <<CsvLine(Head(d).word)>> \o UserLines(Tail(d))

\* update_dict, lines 169-206: csv_text.
CsvText(text, d) == Concat(WithNewline(text), Lines(UserLines(d)))

\* The analyzer's active dictionary: the one it shipped with, or a compiled
\* csv that update_global_jtalk_with_user_dict loaded.
FactoryIndex == [user |-> FALSE, csv |-> <<>>]
CompiledIndex(csv) == [user |-> TRUE, csv |-> csv]
NoFile == [exists |-> FALSE, csv |-> <<>>]
TmpFile(csv) == [exists |-> TRUE, csv |-> csv]

\* ---------------------------------------------------------------- inputs
NoWord == [surface |-> "", context_id |-> 0, pos |-> <<>>, rule |-> "",
           priority |-> 0]
Op(name, id, word, batch, override) ==
  [name |-> name, id |-> id, word |-> word, batch |-> batch,
   override |-> override]
NoOp == Op("none", NoId, NoWord, <<>>, FALSE)

\* A word an import may carry whose detail fields differ from its row's.
BadDetailWord ==
  [surface |-> "x", context_id |-> 1348, pos |-> <<"meishi", "ippan", "*", "*">>,
   rule |-> "*", priority |-> 5]

\* A word whose accent rule is none of its row's.
BadRuleWord ==
  [surface |-> "y", context_id |-> 1345, pos |-> <<"meishi", "ippan", "*", "*">>,
   rule |-> "C9", priority |-> 5]

\* A word whose context_id is no row's.
NoRowWord ==
  [surface |-> "z", context_id |-> 7, pos |-> <<"meishi", "ippan", "*", "*">>,
   rule |-> "*", priority |-> 5]

\* Batches that pass the validation loop, and batches that must not.
ValidBatches ==
  { <<Entry(Id(1), Word("zunda", 1345, 8)),
      Entry(Id(MaxIds), Word("zunda", 1345, 8))>>,
    <<Entry(VariantId(1), Word("zunda", 1345, 8))>> }
InvalidBatches ==
  { <<Entry(Id(MaxIds), Word("voivo", 1348, 5)), Entry(Id(1), BadDetailWord)>>,
    <<Entry(Id(1), BadRuleWord), Entry(Id(MaxIds), Word("voivo", 1348, 5))>>,
    <<Entry(Id(MaxIds), Word("voivo", 1348, 5)), Entry(Id(1), NoRowWord)>>,
    <<Entry(Id(MaxIds), Word("voivo", 1348, 5)),
      Entry(MalformedId(1), Word("zunda", 1345, 8))>> }
ImportBatches == ValidBatches \cup InvalidBatches

\* The calls of concurrent callers: one of each method, on the first word id.
ConcurrentCalls ==
  { Op("apply", NoId, Word("voivo", 1348, 5), <<>>, FALSE),
    Op("rewrite", Id(1), Word("zunda", 1345, 8), <<>>, FALSE),
    Op("delete", Id(1), NoWord, <<>>, FALSE),
    Op("import", NoId, NoWord, <<Entry(Id(1), Word("zunda", 1345, 8))>>, TRUE),
    Op("refresh", NoId, NoWord, <<>>, FALSE) }

\* The calls of a caller that has the service to itself.
Calls ==
  {Op("apply", NoId, w, <<>>, FALSE) : w \in Words}
  \cup {Op("rewrite", k, Word("zunda", 1345, 8), <<>>, FALSE) : k \in KnownIds}
  \cup {Op("delete", k, NoWord, <<>>, FALSE) : k \in KnownIds}
  \cup {Op("import", NoId, NoWord, b, o) : b \in ValidBatches, o \in BOOLEAN}
  \cup {Op("import", NoId, NoWord, b, FALSE) : b \in InvalidBatches}
  \cup {Op("refresh", NoId, NoWord, <<>>, FALSE)}

\* A validation of one entry that does not look at its id.
CheckEntryOfWordOnly(e) ==
  IF ~HasRow(e.word.context_id) THEN "ValueError: unsupported category"
  ELSE IF e.word.pos # Row(e.word.context_id).pos THEN "AssertionError"
  ELSE IF e.word.rule \notin Row(e.word.context_id).rules THEN "AssertionError"
  ELSE "none"

\* import_user_dict, lines 258-281: the exception the validation loop raises
\* on one entry, "none" if it passes.
CheckEntry(e) ==
  IF ~IsUuid(e.id) THEN "ValueError: badly formed UUID string"
  ELSE IF ~HasRow(e.word.context_id) THEN "ValueError: unsupported category"
  ELSE IF e.word.pos # Row(e.word.context_id).pos THEN "AssertionError"
  ELSE IF e.word.rule \notin Row(e.word.context_id).rules THEN "AssertionError"
  ELSE "none"

RECURSIVE CheckBatch(_)
CheckBatch(b) ==
  IF b = <<>> THEN "none"
  ELSE IF CheckEntry(Head(b)) # "none" THEN CheckEntry(Head(b))
  ELSE CheckBatch(Tail(b))

\* Lines 258-281 under python -O: the assert statements of lines 262-278 are
\* not executed; UUID() and the for-else raise are.
CheckEntryOptimized(e) ==
  IF ~IsUuid(e.id) THEN "ValueError: badly formed UUID string"
  ELSE IF ~HasRow(e.word.context_id) THEN "ValueError: unsupported category"
  ELSE "none"

RECURSIVE CheckBatchOptimized(_)
CheckBatchOptimized(b) ==
  IF b = <<>> THEN "none"
  ELSE IF CheckEntryOptimized(Head(b)) # "none"
    THEN CheckEntryOptimized(Head(b))
  ELSE CheckBatchOptimized(Tail(b))

\* The validation loop as the interpreter runs it.
Validate(b, optimized) ==
  IF optimized THEN CheckBatchOptimized(b) ELSE CheckBatch(b)

\* The stores a deployment can start with: no file yet, or words 1..k.
RECURSIVE FirstWords(_)
FirstWords(k) ==
  IF k = 0 THEN <<>>
  ELSE Append(FirstWords(k - 1), Entry(Id(k), Word("voivo", 1348, 5)))
InitFiles ==
  {AbsentFile} \cup {DocFile(SaveFormat(FirstWords(k))) : k \in 1..(MaxIds - 1)}

\* ----------------------------------------------------------------- state
VARIABLES
  file,                  \* user_dict.json
  default_present,       \* default.csv is a file
  default_csv,           \* the text of default.csv
  optimize,              \* python -O: assert statements are compiled away
  mutex_user_dict,       \* holder of the store lock, NoCaller if free
  mutex_openjtalk_dict,  \* holder of the analyzer lock, NoCaller if free
  jtalk,                 \* the analyzer's active dictionary
  pc,                    \* per caller: where its call stands
  op,                    \* per caller: the call and its arguments
  old_dict,              \* per caller: what its read_dict() returned
  user_dict,             \* per caller: the dict it is about to persist
  tmp_csv,               \* per caller: user.dict_csv-<uuid>.tmp
  tmp_compiled,          \* per caller: user.dict_compiled-<uuid>.tmp
  exc,                   \* per caller: the exception in flight, "none"
  ret,                   \* per caller: how its call ended
  wrote,                 \* per caller: it opened user_dict.json for writing
  piped                  \* per caller: it entered update_dict

vars == <<file, default_present, default_csv, optimize, mutex_user_dict,
          mutex_openjtalk_dict, jtalk, pc, op, old_dict, user_dict, tmp_csv,
          tmp_compiled, exc, ret, wrote, piped>>

store_vars == <<file, mutex_user_dict>>
locals == <<old_dict, user_dict>>
tmps == <<tmp_csv, tmp_compiled>>

NoRet == [status |-> "none", value |-> NoId]
Returned(v) == [status |-> "ok", value |-> v]
Raised(e) == [status |-> e, value |-> NoId]

\* Where the service runs: default.csv and the interpreter's -O flag.
Deployment(present, text, optimized) ==
  [present |-> present, text |-> text, optimize |-> optimized]
ShippedDeployments ==
  { Deployment(TRUE, ShippedText, FALSE), Deployment(FALSE, NoText, FALSE) }
Deployments ==
  ShippedDeployments
    \cup { Deployment(TRUE, ShippedText, TRUE) }
    \cup { Deployment(TRUE, text, FALSE) : text \in DefaultTexts }

\* __init__, line 141: the constructor's update_dict has run.
InitIn(deployments) ==
  /\ file \in InitFiles
  /\ \E d \in deployments :
       /\ default_present = d.present
       /\ default_csv = d.text
       /\ optimize = d.optimize
  /\ mutex_user_dict = NoCaller
  /\ mutex_openjtalk_dict = NoCaller
  /\ jtalk = IF default_present
               THEN CompiledIndex(CsvText(default_csv, ReadDict(file).dict))
               ELSE FactoryIndex
  /\ pc = [t \in Callers |-> "idle"]
  /\ op = [t \in Callers |-> NoOp]
  /\ old_dict = [t \in Callers |-> <<>>]
  /\ user_dict = [t \in Callers |-> <<>>]
  /\ tmp_csv = [t \in Callers |-> NoFile]
  /\ tmp_compiled = [t \in Callers |-> NoFile]
  /\ exc = [t \in Callers |-> "none"]
  /\ ret = [t \in Callers |-> NoRet]
  /\ wrote = [t \in Callers |-> FALSE]
  /\ piped = [t \in Callers |-> FALSE]

\* default.csv is the shipped one or missing, the interpreter runs without -O.
Init == InitIn(ShippedDeployments)
\* Also under python -O, and with a default.csv that ends otherwise.
AnyInit == InitIn(Deployments)

\* ------------------------------------------------------------ the locks
\* A lock.acquire() that does not wait for the lock.
AcquireWithoutWaiting(lock) == TRUE

\* _mutex_wrapper, line 34: lock.acquire() returns once the lock is free.
CanAcquire(lock) == lock = NoCaller

\* How a call ends: the value it returns, or the exception it raises.
Outcome(t, e) ==
  IF e # "none" THEN Raised(e)
  ELSE IF op[t].name = "apply" THEN Returned(Uuid4(t))
  ELSE Returned(NoId)

\* The call is over: the caller has its result and the frame's locals are gone.
EndCall(t, e) ==
  /\ pc' = [pc EXCEPT ![t] = "done"]
  /\ ret' = [ret EXCEPT ![t] = Outcome(t, e)]
  /\ op' = [op EXCEPT ![t] = NoOp]
  /\ old_dict' = [old_dict EXCEPT ![t] = <<>>]
  /\ user_dict' = [user_dict EXCEPT ![t] = <<>>]
  /\ exc' = [exc EXCEPT ![t] = "none"]
  /\ wrote' = [wrote EXCEPT ![t] = FALSE]
  /\ piped' = [piped EXCEPT ![t] = FALSE]

\* ---------------------------------------------------------------- calls
\* A caller invokes one method of UserDictionary (update_dict on its own is
\* the refresh).  Callers are interchangeable, so they start in index order.
Call(t, calls) ==
  /\ pc[t] = "idle"
  /\ \A u \in Callers : u < t => pc[u] # "idle"
  /\ \E c \in calls :
       /\ op' = [op EXCEPT ![t] = c]
       /\ pc' = [pc EXCEPT ![t] =
                   IF c.name = "import" THEN "validate"
                   ELSE IF c.name = "refresh" THEN "upd_lock"
                   ELSE "read_lock"]
  /\ UNCHANGED <<file, default_present, default_csv, optimize, mutex_user_dict,
                 mutex_openjtalk_dict, jtalk, old_dict, user_dict, tmp_csv,
                 tmp_compiled, exc, ret, wrote, piped>>

\* import_user_dict, lines 257-281: the validation loop.
ImportValidate(t) ==
  /\ pc[t] = "validate"
  /\ LET e == Validate(op[t].batch, optimize) IN
       IF e = "none"
         THEN /\ pc' = [pc EXCEPT ![t] = "read_lock"]
              /\ UNCHANGED <<op, old_dict, user_dict, exc, ret, wrote, piped>>
         ELSE EndCall(t, e)
  /\ UNCHANGED <<file, default_present, default_csv, optimize, mutex_user_dict,
                 mutex_openjtalk_dict, jtalk, tmp_csv, tmp_compiled>>

\* read_dict entered through _mutex_wrapper(mutex_user_dict), lines 230, 34.
ReadAcquire(t) ==
  /\ pc[t] = "read_lock"
  /\ CanAcquire(mutex_user_dict)
  /\ mutex_user_dict' = t
  /\ pc' = [pc EXCEPT ![t] = "read"]
  /\ UNCHANGED <<file, default_present, default_csv, optimize,
                 mutex_openjtalk_dict, jtalk, op, old_dict, user_dict, tmp_csv,
                 tmp_compiled, exc, ret, wrote, piped>>

\* An apply_word that stores its word under the first id the dict has.
NewDictReusingId(t, d) ==
  CASE op[t].name = "apply" ->
         IF d = <<>> THEN Put(d, Uuid4(t), op[t].word)
         ELSE Put(d, d[1].id, op[t].word)
    [] op[t].name = "rewrite" -> Put(d, op[t].id, op[t].word)
    [] op[t].name = "delete" -> Del(d, op[t].id)
    [] op[t].name = "import" ->
         IF op[t].override THEN Merge(d, op[t].batch) ELSE Merge(op[t].batch, d)
    [] OTHER -> d

\* The dict an edit persists, computed from the dict it read:
\* lines 303, 317, 329, 288-292.
NewDict(t, d) ==
  CASE op[t].name = "apply" -> Put(d, Uuid4(t), op[t].word)
    [] op[t].name = "rewrite" -> Put(d, op[t].id, op[t].word)
    [] op[t].name = "delete" -> Del(d, op[t].id)
    [] op[t].name = "import" ->
         IF op[t].override THEN Merge(d, op[t].batch) ELSE Merge(op[t].batch, d)
    [] OTHER -> d

\* A rewrite_word without its membership test: only delete_word checks.
NotFoundDeleteOnly(t, d) == op[t].name = "delete" /\ ~Has(d, op[t].id)

\* rewrite_word / delete_word, lines 315 and 327: the id must be a key.
NotFound(t, d) == op[t].name \in {"rewrite", "delete"} /\ ~Has(d, op[t].id)

\* Lines 316 and 328: UserDictInputError with the method's own message.
NotFoundError(t) ==
  IF op[t].name = "rewrite" THEN "UserDictInputError: no word for this UUID"
  ELSE "UserDictInputError: no word for this ID"

\* read_dict's body and the lock's release (lines 233-242, 38), then the
\* caller's own statements up to its _write_to_json call.
ReadBody(t) ==
  /\ pc[t] = "read"
  /\ mutex_user_dict' = NoCaller
  /\ LET r == ReadDict(file) IN
       IF r.exc # "none" THEN EndCall(t, r.exc)
       ELSE IF NotFound(t, r.dict) THEN EndCall(t, NotFoundError(t))
       ELSE   /\ pc' = [pc EXCEPT ![t] = "write_lock"]
              /\ old_dict' = [old_dict EXCEPT ![t] = r.dict]
              /\ user_dict' = [user_dict EXCEPT ![t] = NewDict(t, r.dict)]
              /\ UNCHANGED <<op, exc, ret, wrote, piped>>
  /\ UNCHANGED <<file, default_present, default_csv, optimize,
                 mutex_openjtalk_dict, jtalk, tmp_csv, tmp_compiled>>

\* _write_to_json entered through _mutex_wrapper(mutex_user_dict), line 143;
\* Path.write_bytes, line 151, opens the file with mode "wb", which truncates
\* it in place.
WriteOpen(t) ==
  /\ pc[t] = "write_lock"
  /\ CanAcquire(mutex_user_dict)
  /\ mutex_user_dict' = t
  /\ file' = PartialFile
  /\ wrote' = [wrote EXCEPT ![t] = TRUE]
  /\ pc' = [pc EXCEPT ![t] = "write_data"]
  /\ UNCHANGED <<default_present, default_csv, optimize, mutex_openjtalk_dict,
                 jtalk, op, old_dict, user_dict, tmp_csv, tmp_compiled, exc,
                 ret, piped>>

\* A write that puts the dict as it was read back in the file (the edit is
\* held back until the compile has succeeded).
WriteDataDeferred(t) ==
  /\ pc[t] = "write_data"
  /\ file' = DocFile(SaveFormat(old_dict[t]))
  /\ mutex_user_dict' = NoCaller
  /\ pc' = [pc EXCEPT ![t] = "upd_lock"]
  /\ UNCHANGED <<default_present, default_csv, optimize, mutex_openjtalk_dict,
                 jtalk, op, old_dict, user_dict, tmp_csv, tmp_compiled, exc,
                 ret, wrote, piped>>

\* Path.write_bytes, line 151: the bytes reach the file; the lock is released.
WriteData(t) ==
  /\ pc[t] = "write_data"
  /\ file' = DocFile(SaveFormat(user_dict[t]))
  /\ mutex_user_dict' = NoCaller
  /\ pc' = [pc EXCEPT ![t] = "upd_lock"]
  /\ UNCHANGED <<default_present, default_csv, optimize, mutex_openjtalk_dict,
                 jtalk, op, old_dict, user_dict, tmp_csv, tmp_compiled, exc,
                 ret, wrote, piped>>

\* A failed write whose exception leaves the wrapper without lock.release().
WriteFailHoldingLock(t) ==
  /\ pc[t] = "write_data"
  /\ EndCall(t, "OSError")
  /\ UNCHANGED <<file, default_present, default_csv, optimize, mutex_user_dict,
                 mutex_openjtalk_dict, jtalk, tmp_csv, tmp_compiled>>

\* Path.write_bytes, line 151, interrupted after the truncation (the device
\* is full, the write fails): OSError leaves through the wrapper's finally.
WriteFail(t) ==
  /\ pc[t] = "write_data"
  /\ mutex_user_dict' = NoCaller
  /\ EndCall(t, "OSError")
  /\ UNCHANGED <<file, default_present, default_csv, optimize,
                 mutex_openjtalk_dict, jtalk, tmp_csv, tmp_compiled>>

\* ------------------------------------------------------------ update_dict
\* An update_dict that goes on to the export without the default dictionary.
AfterDefaultCheckIgnored(present) == "upd_read_lock"

\* Lines 172-175: where update_dict goes on from the default dictionary
\* check: straight to its finally block (warn and return) or on to the export.
AfterDefaultCheck(present) == IF present THEN "upd_read_lock" ELSE "finally"

\* update_dict entered through _mutex_wrapper(mutex_openjtalk_dict), line 153,
\* up to the default dictionary check of line 172.
UpdAcquire(t) ==
  /\ pc[t] = "upd_lock"
  /\ CanAcquire(mutex_openjtalk_dict)
  /\ mutex_openjtalk_dict' = t
  /\ piped' = [piped EXCEPT ![t] = TRUE]
  /\ pc' = [pc EXCEPT ![t] = AfterDefaultCheck(default_present)]
  /\ UNCHANGED <<file, default_present, default_csv, optimize, mutex_user_dict,
                 jtalk, op, old_dict, user_dict, tmp_csv, tmp_compiled, exc,
                 ret, wrote>>

\* A read_dict inside update_dict that relies on the analyzer lock alone.
UpdReadWithoutStoreLock(t) ==
  /\ pc[t] = "upd_read_lock"
  /\ pc' = [pc EXCEPT ![t] = "upd_read"]
  /\ UNCHANGED <<file, default_present, default_csv, optimize, mutex_user_dict,
                 mutex_openjtalk_dict, jtalk, op, old_dict, user_dict, tmp_csv,
                 tmp_compiled, exc, ret, wrote, piped>>

\* Line 181: read_dict inside update_dict, entered through its own wrapper.
UpdReadAcquire(t) ==
  /\ pc[t] = "upd_read_lock"
  /\ CanAcquire(mutex_user_dict)
  /\ mutex_user_dict' = t
  /\ pc' = [pc EXCEPT ![t] = "upd_read"]
  /\ UNCHANGED <<file, default_present, default_csv, optimize,
                 mutex_openjtalk_dict, jtalk, op, old_dict, user_dict, tmp_csv,
                 tmp_compiled, exc, ret, wrote, piped>>

\* Lines 181-208: read_dict's body and release, then the csv text is built
\* and written to the temporary csv file; an exception of read_dict goes to
\* the except/finally blocks.
UpdExport(t) ==
  /\ pc[t] = "upd_read"
  /\ mutex_user_dict' = NoCaller
  /\ LET r == ReadDict(file) IN
       IF r.exc # "none"
         THEN /\ exc' = [exc EXCEPT ![t] = r.exc]
              /\ pc' = [pc EXCEPT ![t] = "finally"]
              /\ UNCHANGED tmp_csv
         ELSE /\ tmp_csv' = [tmp_csv EXCEPT ![t] =
                             TmpFile(CsvText(default_csv, r.dict))]
              /\ pc' = [pc EXCEPT ![t] = "compile"]
              /\ UNCHANGED exc
  /\ UNCHANGED <<file, default_present, default_csv, optimize,
                 mutex_openjtalk_dict, jtalk, op, old_dict, user_dict,
                 tmp_compiled, ret, wrote, piped>>

\* Lines 211-213: pyopenjtalk.mecab_dict_index wrote the compiled file.
Compile(t) ==
  /\ pc[t] = "compile"
  /\ tmp_compiled' = [tmp_compiled EXCEPT ![t] = TmpFile(tmp_csv[t].csv)]
  /\ pc' = [pc EXCEPT ![t] = "load"]
  /\ UNCHANGED <<file, default_present, default_csv, optimize, mutex_user_dict,
                 mutex_openjtalk_dict, jtalk, op, old_dict, user_dict, tmp_csv,
                 exc, ret, wrote, piped>>

\* A failed compile that also unloads the analyzer's user dictionary.
CompileFailUnloading(t) ==
  /\ pc[t] = "compile"
  /\ exc' = [exc EXCEPT ![t] = "RuntimeError"]
  /\ jtalk' = FactoryIndex
  /\ pc' = [pc EXCEPT ![t] = "finally"]
  /\ UNCHANGED <<file, default_present, default_csv, optimize, mutex_user_dict,
                 mutex_openjtalk_dict, op, old_dict, user_dict, tmp_csv,
                 tmp_compiled, ret, wrote, piped>>

\* Lines 211-213: the compiler raised, or left no compiled file (RuntimeError).
CompileFail(t) ==
  /\ pc[t] = "compile"
  /\ exc' = [exc EXCEPT ![t] = "RuntimeError"]
  /\ pc' = [pc EXCEPT ![t] = "finally"]
  /\ UNCHANGED <<file, default_present, default_csv, optimize, mutex_user_dict,
                 mutex_openjtalk_dict, jtalk, op, old_dict, user_dict, tmp_csv,
                 tmp_compiled, ret, wrote, piped>>

\* Lines 216-218: the analyzer loads the compiled file as its active dictionary.
Load(t) ==
  /\ pc[t] = "load"
  /\ jtalk' = CompiledIndex(tmp_compiled[t].csv)
  /\ pc' = [pc EXCEPT ![t] = "finally"]
  /\ UNCHANGED <<file, default_present, default_csv, optimize, mutex_user_dict,
                 mutex_openjtalk_dict, op, old_dict, user_dict, tmp_csv,
                 tmp_compiled, exc, ret, wrote, piped>>

\* Lines 216-218: the load raised; the analyzer keeps what it had.
LoadFail(t) ==
  /\ pc[t] = "load"
  /\ exc' = [exc EXCEPT ![t] = "LoadError"]
  /\ pc' = [pc EXCEPT ![t] = "finally"]
  /\ UNCHANGED <<file, default_present, default_csv, optimize, mutex_user_dict,
                 mutex_openjtalk_dict, jtalk, op, old_dict, user_dict, tmp_csv,
                 tmp_compiled, ret, wrote, piped>>

\* Path.unlink(), line 225: the file is gone.
Unlink(f) == NoFile

\* _delete_file_on_close, lines 64-117: the file is unlinked, or on win32
\* opened with FILE_FLAG_DELETE_ON_CLOSE and closed, which leaves its removal
\* to the system; either way it is no file of this program any more.
DeleteFileOnClose(f) == NoFile

\* A cleanup placed at the end of the try block: skipped by an exception.
UpdFinallyAfterSuccess(t) ==
  /\ pc[t] = "finally"
  /\ tmp_csv' = [tmp_csv EXCEPT ![t] =
                   IF exc[t] = "none" THEN NoFile ELSE tmp_csv[t]]
  /\ tmp_compiled' = [tmp_compiled EXCEPT ![t] =
                        IF exc[t] = "none" THEN NoFile ELSE tmp_compiled[t]]
  /\ mutex_openjtalk_dict' = NoCaller
  /\ EndCall(t, exc[t])
  /\ UNCHANGED <<file, default_present, default_csv, optimize, mutex_user_dict,
                 jtalk>>

\* Lines 223-228 and 38: the finally block removes both temporary files, the
\* wrapper releases the analyzer lock, and the call returns or re-raises.
UpdFinally(t) ==
  /\ pc[t] = "finally"
  /\ tmp_csv' = [tmp_csv EXCEPT ![t] =
                   IF tmp_csv[t].exists THEN Unlink(tmp_csv[t]) ELSE tmp_csv[t]]
  /\ tmp_compiled' = [tmp_compiled EXCEPT ![t] =
                        IF tmp_compiled[t].exists
                          THEN DeleteFileOnClose(tmp_compiled[t])
                          ELSE tmp_compiled[t]]
  /\ mutex_openjtalk_dict' = NoCaller
  /\ EndCall(t, exc[t])
  /\ UNCHANGED <<file, default_present, default_csv, optimize, mutex_user_dict,
                 jtalk>>

\* ------------------------------------------------------- specifications
\* The steps of a call that is under way.
RunStep(t) ==
  \/ ImportValidate(t)
  \/ ReadAcquire(t)
  \/ ReadBody(t)
  \/ WriteOpen(t)
  \/ WriteData(t)
  \/ WriteFail(t)
  \/ UpdAcquire(t)
  \/ UpdReadAcquire(t)
  \/ UpdExport(t)
  \/ Compile(t)
  \/ CompileFail(t)
  \/ Load(t)
  \/ LoadFail(t)
  \/ UpdFinally(t)

\* Any number of callers at once.
Next == \E t \in Callers : Call(t, ConcurrentCalls) \/ RunStep(t)
Spec == Init /\ [][Next]_vars

\* The same callers under a fair scheduler: a call that can take a step,
\* however the external compile and load calls end, takes one.
FairSpec == Spec /\ \A t \in Callers : WF_vars(RunStep(t))

\* One call at a time: a caller starts only when no other call is running.
Quiet(t) == \A u \in Callers \ {t} : pc[u] \in {"idle", "done"}
SeqCall(t) == Quiet(t) /\ Call(t, Calls)
SeqNext == \E t \in Callers : SeqCall(t) \/ RunStep(t)
SeqSpec == Init /\ [][SeqNext]_vars

\* One call at a time, in any deployment.
AnySeqSpec == AnyInit /\ [][SeqNext]_vars

\* ================================================================ claims
Edits == {"apply", "rewrite", "delete", "import"}
StoreReadPcs == {"read"}
StoreWritePcs == {"write_lock", "write_data"}
\* A call between its store read and the end of its recompile.
EditPcs == {"write_lock", "write_data", "upd_lock", "upd_read_lock",
            "upd_read", "compile", "load", "finally"}
\* A call inside update_dict (export, compile, load, cleanup).
PipelinePcs == {"upd_read_lock", "upd_read", "compile", "load", "finally"}
Moves(t) == pc'[t] # pc[t]

\* ---------------------------------------------------------------------
\* C1: when every caller has called apply_word against an initially empty
\* store and every call has returned its id, the persisted dict has exactly
\* one entry per returned id (no update is lost).
AllApplied ==
  \A t \in Callers : pc[t] = "done" /\ ret[t].status = "ok" /\ ret[t].value # NoId
ReturnedIds == { ret[t].value : t \in Callers }
C1_NoLostUpdate ==
  (AllApplied /\ Keys(ReadDict(file).dict) \cap KnownIds = {})
    => /\ Keys(ReadDict(file).dict) = ReturnedIds
       /\ Len(ReadDict(file).dict) = NumCallers

\* ---------------------------------------------------------------------
\* C2: between the store read of one edit and the end of its recompile, no
\* other edit performs its store read or its store write.
C2_EditIsOneCriticalSection ==
  [][\A t, u \in Callers :
       (t # u /\ op[t].name \in Edits /\ pc[t] \in EditPcs
          /\ op[u].name \in Edits)
         => ~(pc[u] \in StoreReadPcs \cup StoreWritePcs /\ Moves(u))]_vars

\* ---------------------------------------------------------------------
\* C3: at most one caller is inside update_dict at any time, and it is the
\* holder of mutex_openjtalk_dict; two loads are never in flight together.
InPipeline == { t \in Callers : pc[t] \in PipelinePcs }
C3_OnePipelineRun ==
  /\ Cardinality(InPipeline) <= 1
  /\ \A t \in Callers : t \in InPipeline <=> mutex_openjtalk_dict = t
  /\ Cardinality({ t \in Callers : pc[t] = "load" }) <= 1
C3_Witness ==
  \E t, u \in Callers : t # u /\ pc[t] = "load" /\ pc[u] = "upd_lock"

\* ---------------------------------------------------------------------
\* C4: whenever a read_dict can run (the store lock is free), the persisted
\* document is a complete one (the previous or the new), never a partly
\* written one.
C4_WriteIsAllOrNothing ==
  mutex_user_dict = NoCaller => file.kind \in {"absent", "doc"}

\* ---------------------------------------------------------------------
\* C5: an edit whose update_dict fails at the compile step has already
\* written the store: the persisted dict read back is the edited dict (the new
\* id maps to the submitted word, the rewritten id to its new word, the
\* deleted id is gone), the call raises the compile error, and returning
\* leaves the store as it is (no rollback).  Calls one at a time.
CompileFailed(t) ==
  op[t].name \in Edits /\ pc[t] = "finally" /\ exc[t] = "RuntimeError"
EditVisible(t, d) ==
  /\ op[t].name # "import" => d = user_dict[t]
  /\ op[t].name = "apply" =>
       Has(d, Uuid4(t)) /\ Get(d, Uuid4(t)) = op[t].word
  /\ op[t].name = "rewrite" =>
       Has(d, op[t].id) /\ Get(d, op[t].id) = op[t].word
  /\ op[t].name = "delete" => ~Has(d, op[t].id)
  /\ op[t].name = "import" =>
       \A i \in DOMAIN op[t].batch : Has(d, CanonicalId(op[t].batch[i].id))
C5_EditSurvivesCompileFailure ==
  /\ [](\A t \in Callers :
          /\ (op[t].name \in Edits /\ piped[t]) =>
               (wrote[t] /\ pc[t] \notin StoreWritePcs)
          /\ CompileFailed(t) =>
               (file.kind = "doc" /\ EditVisible(t, ReadDict(file).dict)))
  /\ [][\A t \in Callers :
          (CompileFailed(t) /\ Moves(t)) =>
            /\ pc'[t] = "done"
            /\ ret'[t] = Raised("RuntimeError")
            /\ file' = file]_vars
C5_Witness ==
  \E t \in Callers :
    /\ CompileFailed(t) /\ op[t].name = "rewrite"
    /\ Get(old_dict[t], op[t].id) # op[t].word

\* ---------------------------------------------------------------------
\* C6: the analyzer's active dictionary changes only in a load step that
\* succeeds, and then to the file compiled in that run; a run that fails at
\* the export, at a missing default dictionary or at the compile leaves it
\* as it was.
C6_IndexChangesOnlyAtLoad ==
  [][jtalk' # jtalk =>
       \E t \in Callers :
         /\ pc[t] = "load" /\ pc'[t] = "finally" /\ exc'[t] = "none"
         /\ tmp_compiled[t].exists
         /\ jtalk' = CompiledIndex(tmp_compiled[t].csv)]_vars
C6_Witness ==
  \E t \in Callers :
    /\ pc[t] = "finally" /\ exc[t] = "RuntimeError"
    /\ jtalk.user /\ jtalk.csv # tmp_csv[t].csv

\* ---------------------------------------------------------------------
\* C7: an edit whose update_dict finds the default dictionary missing ends
\* with an error raised to its caller.
C7_MissingDefaultIsRaised ==
  [][\A t \in Callers :
       (op[t].name \in Edits /\ pc[t] = "finally" /\ ~default_present
          /\ pc'[t] = "done")
         => ret'[t].status # "ok"]_vars

\* ---------------------------------------------------------------------
\* C8: update_dict called on its own with the default dictionary missing
\* changes neither the store nor the analyzer's active dictionary, creates
\* no temporary file and returns without an exception.
C8_RefreshWithoutDefaultIsNoOp ==
  [][\A t \in Callers :
       (op[t].name = "refresh" /\ ~default_present /\ Moves(t)) =>
         /\ file' = file
         /\ jtalk' = jtalk
         /\ ~tmp_csv'[t].exists /\ ~tmp_compiled'[t].exists
         /\ pc'[t] \in {"finally", "done"}
         /\ pc'[t] = "done" => ret'[t] = Returned(NoId)]_vars
C8_Witness ==
  \E t \in Callers :
    op[t].name = "refresh" /\ pc[t] = "finally" /\ ~default_present

\* ---------------------------------------------------------------------
\* C9: rewrite_word with an id that is not a key of the persisted dict
\* raises the not-found error straight after its read: it has written
\* nothing and has not entered update_dict, and the store and the analyzer
\* are as before.  Calls one at a time.
AbsentIdRead(t, name) ==
  /\ op[t].name = name /\ pc[t] = "read" /\ Moves(t)
  /\ ReadDict(file).exc = "none" /\ ~Has(ReadDict(file).dict, op[t].id)
C9_RewriteAbsentId ==
  [][\A t \in Callers :
       AbsentIdRead(t, "rewrite") =>
         /\ pc'[t] = "done"
         /\ ret'[t] = Raised("UserDictInputError: no word for this UUID")
         /\ ~wrote[t] /\ ~piped[t]
         /\ file' = file /\ jtalk' = jtalk]_vars
C9_Witness ==
  \E t \in Callers :
    /\ pc[t] = "done"
    /\ ret[t].status = "UserDictInputError: no word for this UUID"
    /\ file.kind = "doc" /\ file.doc # <<>>

\* ---------------------------------------------------------------------
\* C10: delete_word with an id that is not a key raises the not-found error
\* and leaves the store as it was; with an id that is a key, the dict it
\* read is the persisted one, and from its write on the persisted dict has
\* the keys of the dict read minus that id, each with the word it had.
\* Calls one at a time.
SameWords(new, old) == \A k \in Keys(new) : Get(new, k) = Get(old, k)
C10_DeleteRemovesExactlyOne ==
  /\ [][\A t \in Callers :
          AbsentIdRead(t, "delete") =>
            /\ pc'[t] = "done"
            /\ ret'[t] = Raised("UserDictInputError: no word for this ID")
            /\ file' = file]_vars
  /\ [](\A t \in Callers :
          op[t].name = "delete" =>
            /\ pc[t] = "write_lock" =>
                 /\ Has(old_dict[t], op[t].id)
                 /\ ReadDict(file).dict = old_dict[t]
            /\ pc[t] \in EditPcs \ StoreWritePcs =>
                 /\ file.kind = "doc"
                 /\ Keys(ReadDict(file).dict) = Keys(old_dict[t]) \ {op[t].id}
                 /\ SameWords(ReadDict(file).dict, old_dict[t]))
C10_Witness ==
  \E t \in Callers :
    /\ op[t].name = "delete" /\ pc[t] = "finally" /\ exc[t] = "none"
    /\ Len(old_dict[t]) >= 2 /\ old_dict[t][1].id = op[t].id

\* ---------------------------------------------------------------------
\* C11: import_user_dict of a batch that passes validation reads the
\* persisted dict, and from its write on the persisted dict has the ids of
\* both sides: an id only the old dict has keeps its word, an id only the
\* batch has gets the batch's word, and an id both have keeps the old word
\* when override is false and gets the batch's word when override is true.
\* Ids are compared as UUID values. Calls one at a time.
IncomingIds(b) == { CanonicalId(b[i].id) : i \in DOMAIN b }
Incoming(b, k) == b[CHOOSE i \in DOMAIN b : CanonicalId(b[i].id) = k].word
C11_ImportMerge ==
  \A t \in Callers :
    (op[t].name = "import" /\ CheckBatch(op[t].batch) = "none") =>
      /\ pc[t] = "write_lock" => ReadDict(file).dict = old_dict[t]
      /\ pc[t] \in EditPcs \ StoreWritePcs =>
           LET new == ReadDict(file).dict
               old == old_dict[t]
               b == op[t].batch
           IN /\ file.kind = "doc"
              /\ Keys(new) = Keys(old) \cup IncomingIds(b)
              /\ \A k \in Keys(old) \ IncomingIds(b) : Get(new, k) = Get(old, k)
              /\ \A k \in IncomingIds(b) \ Keys(old) :
                   Get(new, k) = Incoming(b, k)
              /\ \A k \in Keys(old) \cap IncomingIds(b) :
                   Get(new, k) = IF op[t].override THEN Incoming(b, k)
                                 ELSE Get(old, k)
C11_Witness ==
  \E t \in Callers :
    /\ op[t].name = "import" /\ pc[t] = "finally" /\ exc[t] = "none"
    /\ ~op[t].override
    /\ Keys(old_dict[t]) \ IncomingIds(op[t].batch) # {}
    /\ IncomingIds(op[t].batch) \ Keys(old_dict[t]) # {}
    /\ \E k \in Keys(old_dict[t]) \cap IncomingIds(op[t].batch) :
         Get(old_dict[t], k) # Incoming(op[t].batch, k)

\* ---------------------------------------------------------------------
\* C12: import_user_dict of a batch in which some entry's context_id, detail
\* fields or accent rule match no row of part_of_speech_data, wherever that
\* entry sits in the batch, ends at its validation with an exception: it
\* does not write the store, does not enter update_dict, and leaves the
\* persisted document as it was.
MatchesCategory(w) ==
  /\ HasRow(w.context_id)
  /\ w.pos = Row(w.context_id).pos
  /\ w.rule \in Row(w.context_id).rules
HasBadCategory(b) == \E i \in DOMAIN b : ~MatchesCategory(b[i].word)
C12_BadCategoryImportFails ==
  [][\A t \in Callers :
       (pc[t] = "validate" /\ HasBadCategory(op[t].batch) /\ Moves(t)) =>
         /\ pc'[t] = "done"
         /\ ret'[t].status \notin {"none", "ok"}
         /\ ~wrote'[t] /\ ~piped'[t]
         /\ file' = file /\ jtalk' = jtalk]_vars

\* ---------------------------------------------------------------------
\* C13: apply_word reads the persisted dict; from its write on the persisted
\* dict has the keys of the dict read plus one new key, the id the call
\* returns, which maps to the submitted word, and every other key keeps the
\* word it had; a call that ends without exception returns that id. Calls
\* one at a time.
C13_ApplyAddsExactlyOne ==
  /\ [](\A t \in Callers :
          op[t].name = "apply" =>
            /\ pc[t] = "write_lock" =>
                 /\ ReadDict(file).dict = old_dict[t]
                 /\ ~Has(old_dict[t], Uuid4(t))
            /\ pc[t] \in EditPcs \ StoreWritePcs =>
                 /\ file.kind = "doc"
                 /\ Keys(ReadDict(file).dict) = Keys(old_dict[t]) \cup {Uuid4(t)}
                 /\ Len(ReadDict(file).dict) = Len(old_dict[t]) + 1
                 /\ Get(ReadDict(file).dict, Uuid4(t)) = op[t].word
                 /\ SameWords(old_dict[t], ReadDict(file).dict))
  /\ [][\A t \in Callers :
          (op[t].name = "apply" /\ pc[t] = "finally" /\ exc[t] = "none"
             /\ Moves(t))
            => ret'[t] = Returned(Uuid4(t))]_vars
C13_Witness ==
  \E t \in Callers :
    /\ pc[t] = "done" /\ ret[t] = Returned(Uuid4(t))
    /\ Len(ReadDict(file).dict) >= 2
    /\ Has(ReadDict(file).dict, Uuid4(t))

\* ---------------------------------------------------------------------
\* C14: once _write_to_json(D) has completed, read_dict() returns without
\* exception a dict equal to D: one entry per entry of D, under the same
\* UUID, with the same word. D is any dict whose keys spell distinct UUIDs;
\* ids are compared as UUID values. The word comes back equal because
\* cost2priority undoes priority2cost for every row and every priority.
\* Calls one at a time.
UuidsOf(d) == { CanonicalId(k) : k \in Keys(d) }
DistinctUuids(d) == Cardinality(UuidsOf(d)) = Len(d)
PriorityRoundTrip ==
  \A r \in part_of_speech_data : \A p \in MIN_PRIORITY..MAX_PRIORITY :
    cost2priority(r.context_id, priority2cost(r.context_id, p)) = p
SpellsUuid(k) == k.form \in {"canonical", "variant"}
C15_PersistedIdsAreUuids ==
  /\ [](file.kind = "doc" => \A k \in Keys(file.doc) : SpellsUuid(k))
  /\ [][\A t \in Callers :
          (pc[t] = "validate" /\ Moves(t)
             /\ \E i \in DOMAIN op[t].batch : ~SpellsUuid(op[t].batch[i].id))
            => /\ pc'[t] = "done"
               /\ ret'[t].status \notin {"none", "ok"}
               /\ ~wrote'[t] /\ ~piped'[t]
               /\ file' = file]_vars
C15_Witness ==
  \E t \in Callers :
    /\ pc[t] = "done"
    /\ ret[t].status = "ValueError: badly formed UUID string"
    /\ file.kind = "doc" /\ Len(file.doc) >= 2

StoreReaders == { t \in Callers : pc[t] \in {"read", "upd_read"} }
StoreWriters == { t \in Callers : pc[t] = "write_data" }
C17_StoreAccessIsExclusive ==
  /\ \A t \in StoreReaders \cup StoreWriters : mutex_user_dict = t
  /\ \A t \in StoreWriters : StoreWriters = {t} /\ StoreReaders = {}
C17_Witness ==
  \E t, u \in Callers :
    /\ pc[t] = "write_data" /\ mutex_user_dict = t
    /\ pc[u] = "upd_read_lock" /\ mutex_openjtalk_dict = u

\* ---------------------------------------------------------------------
\* C18: the csv text a run of update_dict wrote has the lines of default.csv
\* first, in their order and unchanged, then one line per word of the dict
\* the run read: B + U lines for B lines of default.csv and U words, each
\* line being one base line or one user line. Calls one at a time, so the
\* dict the run read is the persisted one.
C18_BaseLinesThenUserLines ==
  \A t \in Callers :
    pc[t] = "compile" =>
      LET csv == tmp_csv[t].csv
          base == default_csv.lines
          user == ReadDict(file).dict
      IN /\ Len(csv) = Len(base) + Len(user)
         /\ \A i \in DOMAIN csv :
              csv[i] = IF i <= Len(base) THEN Line(base[i])
                       ELSE Line(CsvLine(user[i - Len(base)].word))

\* ---------------------------------------------------------------------
\* C19: when default.csv is present and no run of update_dict has failed at
\* its export, compile or load, then once every call has returned the
\* analyzer's active dictionary is the one compiled from the dict that
\* read_dict returns at that moment.
AllReturned == \A t \in Callers : pc[t] = "done"
PipelineFailures ==
  {"JSONDecodeError", "ValueError: badly formed UUID string", "RuntimeError",
   "LoadError"}
NoPipelineFailure == \A t \in Callers : ret[t].status \notin PipelineFailures
C19_IndexMatchesStore ==
  (AllReturned /\ default_present /\ NoPipelineFailure) =>
    /\ ReadDict(file).exc = "none"
    /\ jtalk = CompiledIndex(CsvText(default_csv, ReadDict(file).dict))

\* The same with the further premise that no store write was interrupted:
\* every write is followed by its caller's own update_dict, runs of
\* update_dict are serialized, and each reads the store after it began.
NoWriteFailure == \A t \in Callers : ret[t].status # "OSError"
IndexMatchesStoreWhenWritesComplete ==
  (AllReturned /\ default_present /\ NoPipelineFailure /\ NoWriteFailure) =>
    /\ ReadDict(file).exc = "none"
    /\ jtalk = CompiledIndex(CsvText(default_csv, ReadDict(file).dict))

\* ---------------------------------------------------------------------
\* C20: no caller waits for mutex_openjtalk_dict while it holds
\* mutex_user_dict (the store lock is taken alone, or inside update_dict by
\* the holder of the analyzer lock); a lock is held only by a call that is
\* under way, so both locks are free once every call has returned, however
\* the calls ended; and under a fair scheduler every call that has started
\* returns.
Running(t) == pc[t] \notin {"idle", "done"}
LockOrder ==
  \A t \in Callers :
    /\ pc[t] = "upd_lock" => mutex_user_dict # t
    /\ (mutex_user_dict = t /\ mutex_openjtalk_dict # NoCaller
          /\ pc[t] = "upd_read") => mutex_openjtalk_dict = t
LocksHeldByRunningCalls ==
  /\ mutex_user_dict # NoCaller => Running(mutex_user_dict)
  /\ mutex_openjtalk_dict # NoCaller => Running(mutex_openjtalk_dict)
  /\ AllReturned =>
       mutex_user_dict = NoCaller /\ mutex_openjtalk_dict = NoCaller
C20_EveryCallReturns ==
  /\ [](LockOrder /\ LocksHeldByRunningCalls)
  /\ \A t \in Callers : Running(t) ~> (pc[t] = "done")
C20_Witness ==
  /\ AllReturned
  /\ \E t, u \in Callers :
       /\ t # u
       /\ ret[t].status = "OSError"
       /\ ret[u].status = "JSONDecodeError"
  /\ mutex_user_dict = NoCaller /\ mutex_openjtalk_dict = NoCaller

====
